---- MODULE Spec2Model ----
(***************************************************************************)
(* Chat relay of src/main.rs: one tokio broadcast channel (the Hub) kept   *)
(* in Rocket managed state, POST /message sending into it and one          *)
(* GET /events stream session per connected client reading from it.        *)
(*                                                                         *)
(* The channel is modelled as tokio implements it: a ring of Capacity      *)
(* slots, each stamped with the position of the value it holds, a tail     *)
(* position, a receiver count and a closed flag; each receiver owns a      *)
(* cursor `next`.  Every channel call is one atomic step (tokio takes the  *)
(* tail lock); a session is a process with a program counter.              *)
(***************************************************************************)
EXTENDS Integers, Sequences, FiniteSets, TLC

\* ------------------------------------------------------------------ bounds
\* Number of handler-reaching POST /message requests explored.
MaxPosts == 3
\* Capacity is a power of two in the program (1024 = 2^10); the model keeps
\* it a power of two and explores a small exponent.
CapacityLog2 == 1
\* The connections explored: each name is one GET /events request.
Sessions == {"A", "B"}

\* --------------------------------------------------------------- constants
\* channel::<Message>(1024): the number of slots of the ring.
Capacity == 2 ^ CapacityLog2
\* #[field(validate = len(..30))] and len(..20): half-open ranges.
RoomLenEnd == 30
UsernameLenEnd == 20

Room29 == "12345678901234567890123456789"
Room30 == "123456789012345678901234567890"
User19 == "1234567890123456789"
User20 == "12345678901234567890"
Body40 == "1234567890123456789012345678901234567890"

\* The request bodies explored: an everyday message, one with the longest
\* room and username the validators let through and a body longer than
\* both, and one each with a room and a username one character longer.
Forms ==
    { [room |-> "lobby", username |-> "alice", message |-> "hi"],
      [room |-> Room29,  username |-> User19,  message |-> Body40],
      [room |-> Room30,  username |-> "alice", message |-> "hi"],
      [room |-> "lobby", username |-> User20,  message |-> "hi"] }

\* The value of an empty slot / of `msg` outside an iteration.
NoMsg == [room |-> "", username |-> "", message |-> ""]

VARIABLES
    buffer,   \* Hub: slot index -> [pos, val, id]   (id: ghost, index in posts)
    tailPos,  \* Hub: position the next send writes
    rxCnt,    \* Hub: number of live receivers
    closed,   \* Hub: every Sender has been dropped
    end,      \* the process-wide Shutdown future has resolved
    pc,       \* session -> "idle" | "race" | "yield" | "done"
    rxNext,   \* session -> cursor of its receiver
    msg,      \* session -> [val, id], the local `msg` of the loop body
    posts,    \* ghost: the requests post() has served, in order: [val, status]
    log,      \* ghost: session -> what it emitted / was told, in order
    regAt     \* ghost: session -> Len(posts) when it subscribed

vars == <<buffer, tailPos, rxCnt, closed, end, pc, rxNext, msg, posts, log,
          regAt>>

hub == <<buffer, tailPos, rxCnt, closed>>

Slots == 0 .. (Capacity - 1)

\* ------------------------------------------------------------- the channel
\* channel(capacity): slot i starts stamped i - capacity, so that a receiver
\* at position i sees "not written yet".  The receiver half of the pair is
\* discarded at once (`.0`), which leaves no receiver.
InitBuffer == [i \in Slots |-> [pos |-> i - Capacity, val |-> NoMsg, id |-> 0]]

SlotOf(pos) == pos % Capacity

\* Mutant of Valid: the ranges are taken as closed, len(..=30) and len(..=20).
ValidInclusive(form) ==
    /\ Len(form.room) <= RoomLenEnd
    /\ Len(form.username) <= UsernameLenEnd

\* Form guard of Message: both length validators must pass.
Valid(form) ==
    /\ Len(form.room) < RoomLenEnd
    /\ Len(form.username) < UsernameLenEnd

Init ==
    /\ buffer = InitBuffer
    /\ tailPos = 0
    /\ rxCnt = 0
    /\ closed = FALSE
    /\ end = FALSE
    /\ pc = [s \in Sessions |-> "idle"]
    /\ rxNext = [s \in Sessions |-> 0]
    /\ msg = [s \in Sessions |-> [val |-> NoMsg, id |-> 0]]
    /\ posts = <<>>
    /\ log = [s \in Sessions |-> <<>>]
    /\ regAt = [s \in Sessions |-> 0]

\* Mutant of Send: a bounded queue with back-pressure; send waits while a
\* subscribed session still has the slot at the tail unread.
SendBackpressure(value) ==
    /\ \A s \in Sessions :
          pc[s] \in {"race", "yield"} => tailPos - rxNext[s] < Capacity
    /\ IF rxCnt = 0
       THEN UNCHANGED hub
       ELSE /\ buffer' = [buffer EXCEPT ![SlotOf(tailPos)] =
                             [pos |-> tailPos, val |-> value, id |-> Len(posts) + 1]]
            /\ tailPos' = tailPos + 1
            /\ UNCHANGED <<rxCnt, closed>>

\* Mutant of Send: nothing is overwritten; every value gets a slot of its own.
SendUnbounded(value) ==
    IF rxCnt = 0
    THEN UNCHANGED hub
    ELSE /\ buffer' = [i \in DOMAIN buffer \cup {tailPos} |->
                          IF i = SlotOf(tailPos) \/ i \notin DOMAIN buffer
                          THEN [pos |-> tailPos, val |-> value, id |-> Len(posts) + 1]
                          ELSE buffer[i]]
         /\ tailPos' = tailPos + 1
         /\ UNCHANGED <<rxCnt, closed>>

\* Sender::send: with no receiver the value is handed back as an error and
\* nothing is stored; otherwise the value overwrites the slot at the tail and
\* the tail advances.  It never waits.  (The slot's count of receivers
\* still to read only decides when the value is freed and is left out.)
Send(value) ==
    IF rxCnt = 0
    THEN UNCHANGED hub
    ELSE /\ buffer' = [buffer EXCEPT ![SlotOf(tailPos)] =
                          [pos |-> tailPos, val |-> value, id |-> Len(posts) + 1]]
         /\ tailPos' = tailPos + 1
         /\ UNCHANGED <<rxCnt, closed>>

\* What send returns: Err(SendError(value)) with no receiver, else Ok(rx_cnt).
SendResult == IF rxCnt = 0 THEN [ok |-> FALSE, n |-> 0] ELSE [ok |-> TRUE, n |-> rxCnt]

\* Mutant of PostStatus: the error of send is passed on to the caller.
PostStatusPropagate(res) == IF res.ok THEN "ok" ELSE "error"

\* post() binds the result to _res and returns (): the response is 200 OK
\* whatever the result.
PostStatus(res) == "ok"

\* Mutant of SubscribeNext: the new receiver starts at the oldest retained
\* position.
SubscribeOldest == IF tailPos > Capacity THEN tailPos - Capacity ELSE 0

\* Sender::subscribe: the new receiver's cursor is the tail.
SubscribeNext == tailPos

\* Mutant of Recv: a successful read leaves the cursor where it is.
RecvNoAdvance(next) ==
    LET slot == buffer[SlotOf(next)]
        oldest == tailPos - Capacity
    IN  IF slot.pos = next
        THEN [tag |-> "Ok", val |-> slot.val, id |-> slot.id,
              next |-> next, missed |-> 0]
        ELSE IF slot.pos + Capacity = next
        THEN [tag |-> IF closed THEN "Closed" ELSE "Empty", val |-> NoMsg,
              id |-> 0, next |-> next, missed |-> 0]
        ELSE [tag |-> "Lagged", val |-> NoMsg, id |-> 0,
              next |-> oldest, missed |-> oldest - next]

\* Mutant of Recv: an overwritten position is skipped without an error; the
\* oldest retained value is returned as if nothing had been missed.
RecvSilentSkip(next) ==
    LET slot == buffer[SlotOf(next)]
        oldest == tailPos - Capacity
    IN  IF slot.pos = next
        THEN [tag |-> "Ok", val |-> slot.val, id |-> slot.id,
              next |-> next + 1, missed |-> 0]
        ELSE IF slot.pos + Capacity = next
        THEN [tag |-> IF closed THEN "Closed" ELSE "Empty", val |-> NoMsg,
              id |-> 0, next |-> next, missed |-> 0]
        ELSE [tag |-> "Ok", val |-> buffer[SlotOf(oldest)].val,
              id |-> buffer[SlotOf(oldest)].id,
              next |-> oldest + 1, missed |-> 0]

\* Mutant of Recv: on lag the cursor jumps to the tail, dropping the retained
\* values as well, while the count reports only the overwritten ones.
RecvLagToTail(next) ==
    LET slot == buffer[SlotOf(next)]
        oldest == tailPos - Capacity
    IN  IF slot.pos = next
        THEN [tag |-> "Ok", val |-> slot.val, id |-> slot.id,
              next |-> next + 1, missed |-> 0]
        ELSE IF slot.pos + Capacity = next
        THEN [tag |-> IF closed THEN "Closed" ELSE "Empty", val |-> NoMsg,
              id |-> 0, next |-> next, missed |-> 0]
        ELSE [tag |-> "Lagged", val |-> NoMsg, id |-> 0,
              next |-> tailPos, missed |-> oldest - next]

\* Mutant of Recv: a receiver exactly Capacity behind is already told it
\* lagged and loses the oldest retained message.
RecvLagEarly(next) ==
    LET slot == buffer[SlotOf(next)]
        oldest == tailPos - Capacity
    IN  IF slot.pos = next /\ tailPos - next < Capacity
        THEN [tag |-> "Ok", val |-> slot.val, id |-> slot.id,
              next |-> next + 1, missed |-> 0]
        ELSE IF slot.pos + Capacity = next
        THEN [tag |-> IF closed THEN "Closed" ELSE "Empty", val |-> NoMsg,
              id |-> 0, next |-> next, missed |-> 0]
        ELSE [tag |-> "Lagged", val |-> NoMsg, id |-> 0,
              next |-> oldest + 1, missed |-> oldest + 1 - next]

\* Mutant of Recv: Lagged reports every unread position as missed, the
\* retained ones included.
RecvLagCountsAll(next) ==
    LET slot == buffer[SlotOf(next)]
        oldest == tailPos - Capacity
    IN  IF slot.pos = next
        THEN [tag |-> "Ok", val |-> slot.val, id |-> slot.id,
              next |-> next + 1, missed |-> 0]
        ELSE IF slot.pos + Capacity = next
        THEN [tag |-> IF closed THEN "Closed" ELSE "Empty", val |-> NoMsg,
              id |-> 0, next |-> next, missed |-> 0]
        ELSE [tag |-> "Lagged", val |-> NoMsg, id |-> 0,
              next |-> oldest, missed |-> tailPos - next]

\* Receiver::recv polled once with cursor `next`: the slot stamped `next`
\* holds the value; a slot stamped one lap behind means nothing was sent yet
\* (Empty, or Closed once the senders are gone); any other stamp means the
\* position was overwritten, and the cursor jumps to the oldest retained one.
Recv(next) ==
    LET slot == buffer[SlotOf(next)]
        oldest == tailPos - Capacity
    IN  IF slot.pos = next
        THEN [tag |-> "Ok", val |-> slot.val, id |-> slot.id,
              next |-> next + 1, missed |-> 0]
        ELSE IF slot.pos + Capacity = next
        THEN [tag |-> IF closed THEN "Closed" ELSE "Empty", val |-> NoMsg,
              id |-> 0, next |-> next, missed |-> 0]
        ELSE [tag |-> "Lagged", val |-> NoMsg, id |-> 0,
              next |-> oldest, missed |-> oldest - next]

\* Mutant of DropReceiver: dropping one receiver unregisters them all.
DropReceiverAll == rxCnt' = 0

\* Drop of a Receiver (the stream, which owns rx, is dropped).
DropReceiver == rxCnt' = rxCnt - 1

NoLocal == [val |-> NoMsg, id |-> 0]
Emit(m) == [k |-> "emit", id |-> m.id, val |-> m.val]
Lag(n) == [k |-> "lagged", id |-> n, val |-> NoMsg]
\* The stream ended: why is "closed", "shutdown" or "gone"; id notes how
\* many posts had been served by then.
Term(why) == [k |-> why, id |-> Len(posts), val |-> NoMsg]

\* ------------------------------------------------------------ POST /message
\* The form guard rejects an invalid form before the handler runs; post()
\* sends, discards the result and returns (), which Rocket answers 200.
Post(form) ==
    /\ ~closed
    /\ IF Valid(form)
       THEN /\ Len(posts) < MaxPosts
            /\ Send(form)
            /\ posts' = Append(posts, [val |-> form,
                                        status |-> PostStatus(SendResult)])
       ELSE UNCHANGED <<hub, posts>>
    /\ UNCHANGED <<end, pc, rxNext, msg, log, regAt>>

\* -------------------------------------------------------------- GET /events
\* events(): subscribe, then hand the stream to Rocket.
Events(s) ==
    /\ ~closed
    /\ pc[s] = "idle"
    /\ rxNext' = [rxNext EXCEPT ![s] = SubscribeNext]
    /\ rxCnt' = rxCnt + 1
    /\ pc' = [pc EXCEPT ![s] = "race"]
    /\ regAt' = [regAt EXCEPT ![s] = Len(posts)]
    /\ UNCHANGED <<buffer, tailPos, closed, end, msg, posts, log>>

\* Mutant of RecvOk: the session relays one room only; a message of another
\* room is read and passed over.
RecvOkRoomFilter(s) ==
    /\ pc[s] = "race"
    /\ LET r == Recv(rxNext[s])
       IN  /\ r.tag = "Ok"
           /\ rxNext' = [rxNext EXCEPT ![s] = r.next]
           /\ IF r.val.room = "lobby"
              THEN /\ msg' = [msg EXCEPT ![s] = [val |-> r.val, id |-> r.id]]
                   /\ pc' = [pc EXCEPT ![s] = "yield"]
              ELSE UNCHANGED <<msg, pc>>
    /\ UNCHANGED <<hub, end, posts, log, regAt>>

\* select!, first branch ready with Ok(msg): msg is bound, control goes to
\* the yield.
RecvOk(s) ==
    /\ pc[s] = "race"
    /\ LET r == Recv(rxNext[s])
       IN  /\ r.tag = "Ok"
           /\ rxNext' = [rxNext EXCEPT ![s] = r.next]
           /\ msg' = [msg EXCEPT ![s] = [val |-> r.val, id |-> r.id]]
    /\ pc' = [pc EXCEPT ![s] = "yield"]
    /\ UNCHANGED <<hub, end, posts, log, regAt>>

\* Mutant of RecvLagged: the Lagged result is not taken as ready; the branch
\* stays pending.
RecvLaggedPends(s) ==
    /\ pc[s] = "race"
    /\ Recv(rxNext[s]).tag = "Lagged"
    /\ FALSE
    /\ UNCHANGED vars

\* Mutant of RecvLagged: Lagged ends the stream like Closed.
RecvLaggedBreaks(s) ==
    /\ pc[s] = "race"
    /\ LET r == Recv(rxNext[s])
       IN  /\ r.tag = "Lagged"
           /\ rxNext' = [rxNext EXCEPT ![s] = r.next]
           /\ log' = [log EXCEPT ![s] = Append(@, Lag(r.missed))]
    /\ pc' = [pc EXCEPT ![s] = "done"]
    /\ DropReceiver
    /\ UNCHANGED <<buffer, tailPos, closed, end, msg, posts, regAt>>

\* select!, first branch ready with Err(Lagged(_)): continue.
RecvLagged(s) ==
    /\ pc[s] = "race"
    /\ LET r == Recv(rxNext[s])
       IN  /\ r.tag = "Lagged"
           /\ rxNext' = [rxNext EXCEPT ![s] = r.next]
           /\ log' = [log EXCEPT ![s] = Append(@, Lag(r.missed))]
    /\ UNCHANGED <<hub, end, pc, msg, posts, regAt>>

\* Mutant of RecvClosed: Closed is treated like Lagged; the loop goes on.
RecvClosedContinues(s) ==
    /\ pc[s] = "race"
    /\ Recv(rxNext[s]).tag = "Closed"
    /\ log' = [log EXCEPT ![s] = Append(@, Term("closed"))]
    /\ UNCHANGED <<hub, end, pc, rxNext, msg, posts, regAt>>

\* select!, first branch ready with Err(Closed): break; the stream ends and
\* rx is dropped.
RecvClosed(s) ==
    /\ pc[s] = "race"
    /\ Recv(rxNext[s]).tag = "Closed"
    /\ pc' = [pc EXCEPT ![s] = "done"]
    /\ DropReceiver
    /\ log' = [log EXCEPT ![s] = Append(@, Term("closed"))]
    /\ UNCHANGED <<buffer, tailPos, closed, end, rxNext, msg, posts, regAt>>

\* Mutant of EndResolved: shutdown is looked at only when recv() has
\* something to report, so a session waiting on an empty channel stays there.
EndResolvedWhenWoken(s) ==
    /\ pc[s] = "race"
    /\ end
    /\ Recv(rxNext[s]).tag # "Empty"
    /\ pc' = [pc EXCEPT ![s] = "done"]
    /\ DropReceiver
    /\ log' = [log EXCEPT ![s] = Append(@, Term("shutdown"))]
    /\ UNCHANGED <<buffer, tailPos, closed, end, rxNext, msg, posts, regAt>>

\* Mutant of EndResolved: the select! is biased towards recv(); shutdown
\* wins only when recv() has no message.
EndResolvedAfterMessages(s) ==
    /\ pc[s] = "race"
    /\ end
    /\ Recv(rxNext[s]).tag # "Ok"
    /\ pc' = [pc EXCEPT ![s] = "done"]
    /\ DropReceiver
    /\ log' = [log EXCEPT ![s] = Append(@, Term("shutdown"))]
    /\ UNCHANGED <<buffer, tailPos, closed, end, rxNext, msg, posts, regAt>>

\* Mutant of EndResolved: the shutdown branch falls through to the yield
\* instead of breaking.
EndResolvedYields(s) ==
    /\ pc[s] = "race"
    /\ end
    /\ pc' = [pc EXCEPT ![s] = "yield"]
    /\ UNCHANGED <<hub, end, rxNext, msg, posts, log, regAt>>

\* select!, second branch ready (`&mut end` resolved): break.  select! polls
\* its branches in random order, so this branch can win whatever recv() has.
EndResolved(s) ==
    /\ pc[s] = "race"
    /\ end
    /\ pc' = [pc EXCEPT ![s] = "done"]
    /\ DropReceiver
    /\ log' = [log EXCEPT ![s] = Append(@, Term("shutdown"))]
    /\ UNCHANGED <<buffer, tailPos, closed, end, rxNext, msg, posts, regAt>>

\* yield Event::json(&msg): one event goes to the client, msg goes out of
\* scope and the loop starts over.
Yield(s) ==
    /\ pc[s] = "yield"
    /\ log' = [log EXCEPT ![s] = Append(@, Emit(msg[s]))]
    /\ msg' = [msg EXCEPT ![s] = NoLocal]
    /\ pc' = [pc EXCEPT ![s] = "race"]
    /\ UNCHANGED <<hub, end, rxNext, posts, regAt>>

\* The client goes away: Rocket drops the stream where it is suspended.
Disconnect(s) ==
    /\ pc[s] \in {"race", "yield"}
    /\ pc' = [pc EXCEPT ![s] = "done"]
    /\ msg' = [msg EXCEPT ![s] = NoLocal]
    /\ DropReceiver
    /\ log' = [log EXCEPT ![s] = Append(@, Term("gone"))]
    /\ UNCHANGED <<buffer, tailPos, closed, end, rxNext, posts, regAt>>

\* ------------------------------------------------------------- environment
\* Shutdown is notified: every Shutdown future resolves.
Notify ==
    /\ ~end
    /\ end' = TRUE
    /\ UNCHANGED <<hub, pc, rxNext, msg, posts, log, regAt>>

\* The Rocket instance, and with it the managed Sender, is dropped after
\* shutdown.
DropSender ==
    /\ end
    /\ ~closed
    /\ closed' = TRUE
    /\ UNCHANGED <<buffer, tailPos, rxCnt, end, pc, rxNext, msg, posts,
                   log, regAt>>

Next ==
    \/ \E form \in Forms : Post(form)
    \/ \E s \in Sessions : Events(s)
    \/ \E s \in Sessions : RecvOk(s)
    \/ \E s \in Sessions : RecvLagged(s)
    \/ \E s \in Sessions : RecvClosed(s)
    \/ \E s \in Sessions : EndResolved(s)
    \/ \E s \in Sessions : Yield(s)
    \/ \E s \in Sessions : Disconnect(s)
    \/ Notify
    \/ DropSender

Spec == Init /\ [][Next]_vars

\* Scheduling: the runtime polls a woken session task, so a session that can
\* take a step at the select! or at the yield eventually takes one; select!
\* draws the branch it polls first at random, so a branch that is ready again
\* and again eventually wins.  Requests, disconnects and shutdown come from
\* outside and are not forced.
Race(s) == RecvOk(s) \/ RecvLagged(s) \/ RecvClosed(s) \/ EndResolved(s)

Fairness ==
    \A s \in Sessions :
        /\ WF_vars(Race(s))
        /\ WF_vars(Yield(s))
        /\ SF_vars(EndResolved(s))

FairSpec == Spec /\ Fairness

\* ================================================================== claims
IsEmit(e) == e.k = "emit"
IsLag(e) == e.k = "lagged"
\* The events session s has sent to its client, in order.
Emits(s) == SelectSeq(log[s], IsEmit)
\* s holds a subscription.
Live(s) == pc[s] \in {"race", "yield"}

\* C1: what a session emits is a subsequence of the publish sequence: every
\* event is a published message (same content as the post it was read
\* from), and the posts emitted are strictly later and later ones, so none
\* is emitted twice or out of order.
C1_EmittedIsSubsequence ==
    \A s \in Sessions :
        LET e == Emits(s)
        IN  /\ \A i \in 1 .. Len(e) :
                  /\ e[i].id \in 1 .. Len(posts)
                  /\ e[i].val = posts[e[i].id].val
            /\ \A i, j \in 1 .. Len(e) : i < j => e[i].id < e[j].id

\* A session has emitted three events while the other one emitted too.
C1_Witness ==
    \E s, u \in Sessions :
        /\ s # u
        /\ Len(Emits(s)) = 3
        /\ Len(Emits(u)) >= 1
        /\ Emits(s)[1].val # Emits(s)[2].val

SetMax(S) == CHOOSE x \in S : \A y \in S : y <= x

\* The post session s must emit at index i of its log if nothing was skipped:
\* the one after its previous emission, or the first after its registration.
ExpectedId(s, i) ==
    LET before == {j \in 1 .. (i - 1) : IsEmit(log[s][j])}
    IN  IF before = {} THEN regAt[s] + 1 ELSE log[s][SetMax(before)].id + 1

\* A Lagged was returned to s after its last emission before index i.
LaggedBefore(s, i) ==
    LET before == {j \in 1 .. (i - 1) : IsEmit(log[s][j])}
        from == IF before = {} THEN 1 ELSE SetMax(before) + 1
    IN  \E k \in from .. (i - 1) : IsLag(log[s][k])

C2_GapsFlagged ==
    \A s \in Sessions : \A i \in 1 .. Len(log[s]) :
        (IsEmit(log[s][i]) /\ log[s][i].id # ExpectedId(s, i)) => LaggedBefore(s, i)

C2_BehindGetsLagged ==
    \A s \in Sessions :
        (pc[s] = "race" /\ tailPos - rxNext[s] > Capacity)
            => Recv(rxNext[s]).tag = "Lagged"

\* The step in which recv() returned Lagged to s.
LaggedStep(s) == Len(log'[s]) = Len(log[s]) + 1 /\ IsLag(log'[s][Len(log'[s])])

C2_ResumesAfterLagged ==
    \A s \in Sessions :
        LaggedStep(s) =>
            /\ (Recv(rxNext[s]).tag = "Ok")'
            /\ (Recv(rxNext[s]).id)' > ExpectedId(s, Len(log[s]) + 1)

\* C2: gaps are never silent.  An emission that does not continue the
\* previous one (or, for the first, the registration) is preceded by a
\* Lagged returned since that previous emission; a session more than
\* Capacity behind gets Lagged from its next recv(); and after a Lagged the
\* next recv() succeeds with a later message.
C2_GapsNeverSilent ==
    /\ [](C2_GapsFlagged /\ C2_BehindGetsLagged)
    /\ [][C2_ResumesAfterLagged]_vars

\* A session was told it lagged and then emitted the two retained messages.
C2_Witness ==
    \E s \in Sessions :
        /\ Len(log[s]) = 3
        /\ IsLag(log[s][1])
        /\ IsEmit(log[s][2]) /\ log[s][2].id = regAt[s] + 2
        /\ IsEmit(log[s][3]) /\ log[s][3].id = regAt[s] + 3

\* How many posts the first k entries of log l account for: one per
\* emission, n per Lagged(n).
RECURSIVE Consumed(_, _)
Consumed(l, k) ==
    IF k = 0 THEN 0
    ELSE Consumed(l, k - 1)
         + (IF IsEmit(l[k]) THEN 1 ELSE IF IsLag(l[k]) THEN l[k].id ELSE 0)

Emitted(s, i) == \E k \in 1 .. Len(log[s]) : IsEmit(log[s][k]) /\ log[s][k].id = i

\* Post i is among those a Lagged(n) told s it had skipped.
LaggedOver(s, i) ==
    \E k \in 1 .. Len(log[s]) :
        /\ IsLag(log[s][k])
        /\ regAt[s] + Consumed(log[s], k - 1) < i
        /\ i <= regAt[s] + Consumed(log[s], k)

\* Post i was published while s held its subscription, and s still holds it.
Owed(s, i) == Live(s) /\ regAt[s] < i /\ i <= Len(posts)

C3_AtMostOnce ==
    \A s \in Sessions : \A i \in 1 .. Len(posts) :
        Cardinality({k \in 1 .. Len(log[s]) :
                        IsEmit(log[s][k]) /\ log[s][k].id = i}) <= 1

C3_SameOrder ==
    \A s, u \in Sessions :
        LET e == Emits(s)
            f == Emits(u)
        IN  \A a, b \in 1 .. Len(e) : \A c, d \in 1 .. Len(f) :
                (a < b /\ e[a].id = f[c].id /\ e[b].id = f[d].id) => c < d

\* C3: fan-out.  Under fair scheduling every post published while a session
\* holds its subscription is eventually emitted by it, or covered by a
\* Lagged it received, or the session ends; a post is emitted at most once
\* per session, and two posts emitted by two sessions come in the same order
\* in both.
C3_FanOut ==
    /\ [](C3_AtMostOnce /\ C3_SameOrder)
    /\ \A s \in Sessions : \A i \in 1 .. MaxPosts :
           Owed(s, i) ~> (Emitted(s, i) \/ LaggedOver(s, i) \/ pc[s] = "done")

\* Both sessions subscribed before the first post, neither lagged, and both
\* emitted the same two posts.
C3_Witness ==
    /\ \A s \in Sessions :
          /\ regAt[s] = 0
          /\ Emitted(s, 1) /\ Emitted(s, 2)
          /\ \A k \in 1 .. Len(log[s]) : ~IsLag(log[s][k])
    /\ posts[1].val # posts[2].val

\* The step in which post() served a request.
PostStep == Len(posts') = Len(posts) + 1

\* C4: POST /message answers success in every state; with no subscriber the
\* error of send is discarded, the Hub is left as it was, and a later
\* subscription and publish work as usual (C4_Witness reaches them).
C4_PostAlwaysSucceeds ==
    /\ [](\A i \in 1 .. Len(posts) : posts[i].status = "ok")
    /\ [][PostStep =>
            /\ posts'[Len(posts')].status = "ok"
            /\ (rxCnt = 0 => (~SendResult.ok /\ hub' = hub))
            /\ (rxCnt > 0 => tailPos' = tailPos + 1)]_vars

\* The first post met no subscriber; a session subscribed afterwards, the
\* second post was stored at position 0 and the session emitted it.
C4_Witness ==
    /\ Len(posts) >= 2
    /\ buffer[0].id = 2
    /\ \E s \in Sessions : regAt[s] = 1 /\ Emitted(s, 2)

\* C5: no replay.  Whatever a session reads or emits was published after
\* its registration, and its cursor starts at the tail of the moment.
C5_NoReplay ==
    /\ [](\A s \in Sessions :
            /\ \A k \in 1 .. Len(log[s]) :
                  IsEmit(log[s][k]) => log[s][k].id > regAt[s]
            /\ pc[s] = "yield" => msg[s].id > regAt[s])
    /\ [][\A s \in Sessions :
            (pc[s] = "idle" /\ pc'[s] # "idle") => rxNext'[s] = tailPos]_vars

\* The first post met no subscriber, the second is still retained from
\* before s registered, and s has emitted the third.
C5_Witness ==
    \E s \in Sessions :
        /\ regAt[s] = 2
        /\ buffer[0].id = 2
        /\ Emitted(s, 3)

\* C6: under fair scheduling, once shutdown has resolved every session that
\* holds a subscription ends, also one waiting on an empty channel.
C6_ShutdownTerminates ==
    \A s \in Sessions : (end /\ Live(s)) ~> (pc[s] = "done")

\* Both sessions ended on the shutdown branch although nothing was ever
\* published.
C6_Witness ==
    /\ end
    /\ posts = <<>>
    /\ \A s \in Sessions :
          pc[s] = "done" /\ Len(log[s]) = 1 /\ log[s][1].k = "shutdown"

\* s is at the select!, shutdown has resolved and recv() has no message.
WaitingAtShutdown(s) == pc[s] = "race" /\ end /\ rxNext[s] = tailPos

\* C7: a step of a session that waits at the select! with shutdown resolved
\* and no message available ends the stream and emits nothing; an ended
\* stream stays ended and emits nothing; and nothing is ever emitted that
\* was not published or that repeats the previous event.
C7_NoSpuriousFinalEvent ==
    /\ [][\A s \in Sessions :
            (WaitingAtShutdown(s) /\ <<pc[s], rxNext[s], log[s]>>' # <<pc[s], rxNext[s], log[s]>>)
                => (pc'[s] = "done" /\ Emits(s)' = Emits(s))]_vars
    /\ [][\A s \in Sessions :
            pc[s] = "done" => (pc'[s] = "done" /\ log'[s] = log[s])]_vars
    /\ [](\A s \in Sessions : \A k \in 1 .. Len(log[s]) :
            IsEmit(log[s][k]) =>
                /\ log[s][k].id \in 1 .. Len(posts)
                /\ log[s][k].val = posts[log[s][k].id].val
                /\ (k > 1 /\ IsEmit(log[s][k - 1])) => log[s][k].id # log[s][k - 1].id)

\* A session that had emitted a message and waited for the next one ended
\* on the shutdown branch; its log ends emit, shutdown.
C7_Witness ==
    \E s \in Sessions :
        /\ pc[s] = "done"
        /\ rxNext[s] = tailPos
        /\ Len(log[s]) = 2
        /\ IsEmit(log[s][1])
        /\ log[s][2].k = "shutdown"

\* C8: a slow consumer never blocks publishers.  While the server runs, the
\* publish of any valid form is enabled however far behind the sessions are;
\* a stored publish advances the tail by one, overwrites the slot holding the
\* oldest position and moves no cursor.
C8_PublishNeverBlocks ==
    /\ [](\A form \in Forms :
            (Valid(form) /\ ~closed /\ Len(posts) < MaxPosts) => ENABLED Post(form))
    /\ [][(PostStep /\ rxCnt > 0) =>
            /\ buffer[SlotOf(tailPos)].pos = tailPos - Capacity
            /\ buffer'[SlotOf(tailPos)].pos = tailPos
            /\ \A i \in Slots : i # SlotOf(tailPos) => buffer'[i] = buffer[i]
            /\ tailPos' = tailPos + 1
            /\ rxNext' = rxNext]_vars

\* Both sessions are subscribed, one has never read and is more than
\* Capacity behind, and the last publish overwrote a message.
C8_Witness ==
    /\ rxCnt = 2
    /\ \E s \in Sessions :
          Live(s) /\ log[s] = <<>> /\ pc[s] = "race" /\ tailPos - rxNext[s] > Capacity

\* The slots holding a published value.
Retained == {i \in DOMAIN buffer : buffer[i].pos >= 0}

\* How many messages recv() hands out from cursor `next` if nothing more is
\* published (Lagged results skipped).
RECURSIVE Readable(_)
Readable(next) ==
    LET r == Recv(next)
    IN  IF r.tag = "Ok" THEN 1 + Readable(r.next)
        ELSE IF r.tag = "Lagged" THEN Readable(r.next)
        ELSE 0

\* C9: bounded retention.  The Hub never holds more than Capacity messages
\* and no subscribed session can read more than Capacity messages from where
\* it stands.
C9_BoundedRetention ==
    /\ Cardinality(Retained) <= Capacity
    /\ \A s \in Sessions : Live(s) => Readable(rxNext[s]) <= Capacity

\* More posts were stored than the ring has slots while a session read none.
C9_Witness ==
    /\ tailPos > Capacity
    /\ Cardinality(Retained) = Capacity
    /\ \E s \in Sessions :
          Live(s) /\ rxNext[s] = 0 /\ Readable(rxNext[s]) = Capacity

\* The last thing s did was to receive a Lagged / to emit an event.
LagPending(s) == Live(s) /\ log[s] # <<>> /\ IsLag(log[s][Len(log[s])])
EmittedLast(s) == log[s] # <<>> /\ IsEmit(log[s][Len(log[s])])

\* C10: lag is not fatal.  The step that returns Lagged leaves the session
\* at the select! with its subscription, emits nothing and leaves a message
\* to read; under fair scheduling the session then emits a message unless
\* it is ended by shutdown, Closed or the client.
C10_LagNonFatal ==
    /\ [][\A s \in Sessions :
            LaggedStep(s) =>
                /\ pc'[s] = "race"
                /\ rxCnt' = rxCnt
                /\ Emits(s)' = Emits(s)
                /\ (Recv(rxNext[s]).tag = "Ok")']_vars
    /\ \A s \in Sessions :
          LagPending(s) ~> (pc[s] = "done" \/ EmittedLast(s))

\* After a Lagged the session emitted and is still running, shutdown not
\* having been notified.
C10_Witness ==
    \E s \in Sessions :
        /\ ~end
        /\ Live(s)
        /\ Len(log[s]) >= 2
        /\ IsLag(log[s][1])
        /\ IsEmit(log[s][2])

\* The step in which recv() returned Closed to s, and its having happened.
ClosedStep(s) ==
    /\ Len(log'[s]) = Len(log[s]) + 1
    /\ log'[s][Len(log'[s])].k = "closed"
EndedClosed(s) == log[s] # <<>> /\ log[s][Len(log[s])].k = "closed"

\* C11: Closed is terminal.  The step in which recv() returns Closed happens
\* with every sender gone, ends the stream, drops the subscription and emits
\* nothing; afterwards the session stays ended and its log stays as it is.
C11_ClosedTerminal ==
    /\ [][\A s \in Sessions :
            ClosedStep(s) =>
                /\ closed /\ pc[s] = "race"
                /\ pc'[s] = "done"
                /\ rxCnt' = rxCnt - 1
                /\ Emits(s)' = Emits(s)]_vars
    /\ [][\A s \in Sessions :
            EndedClosed(s) => (pc'[s] = "done" /\ log'[s] = log[s])]_vars
    /\ [](\A s \in Sessions : EndedClosed(s) => pc[s] = "done")

\* A session that had emitted a message got Closed while the other session
\* still holds its subscription.
C11_Witness ==
    \E s, u \in Sessions :
        /\ EndedClosed(s)
        /\ Emits(s) # <<>>
        /\ Live(u)

\* The step in which session s ends.
TermStep(s) == pc[s] # "done" /\ pc'[s] = "done"

\* C12: the end of a session is isolated.  The step that ends s and drops
\* its receiver takes exactly one receiver off the count and leaves the
\* ring, the tail, the closed flag and every other session's cursor, local
\* message, position and readable backlog as they were; the count of
\* receivers always equals the number of subscribed sessions, so a publish
\* made while another session is subscribed is answered ok and stored.
C12_TerminationIsolated ==
    /\ [][\A s \in Sessions :
            TermStep(s) =>
                /\ <<buffer, tailPos, closed, posts>>' = <<buffer, tailPos, closed, posts>>
                /\ rxCnt' = rxCnt - 1
                /\ \A u \in Sessions \ {s} :
                      /\ <<pc[u], rxNext[u], msg[u], log[u]>>'
                            = <<pc[u], rxNext[u], msg[u], log[u]>>
                      /\ Readable(rxNext[u])' = Readable(rxNext[u])]_vars
    /\ [](rxCnt = Cardinality({u \in Sessions : Live(u)}))
    /\ [][(PostStep /\ \E u \in Sessions : Live(u)) =>
            /\ posts'[Len(posts')].status = "ok"
            /\ tailPos' = tailPos + 1
            /\ buffer'[SlotOf(tailPos)].id = Len(posts')]_vars

\* Session s ended when t posts had been served; session u emitted a post
\* from before that and a post from after it.
C12_Witness ==
    \E s, u \in Sessions : \E i, j \in 1 .. Len(posts) :
        /\ s # u
        /\ pc[s] = "done"
        /\ i <= log[s][Len(log[s])].id
        /\ log[s][Len(log[s])].id < j
        /\ Emitted(u, i)
        /\ Emitted(u, j)

\* ---- the state without the message contents: which post sits in which
\* slot, the cursors, the positions of the sessions, and per session which
\* posts it emitted, which Lagged(n) it got and how it ended.
SlotSkel == [i \in Slots |-> [pos |-> buffer[i].pos, id |-> buffer[i].id]]
LogSkel(s) == [n \in 1 .. Len(log[s]) |-> [k |-> log[s][n].k, id |-> log[s][n].id]]
SessSkel(s) == <<pc[s], rxNext[s], msg[s].id, LogSkel(s), regAt[s]>>
HubSkel == <<SlotSkel, tailPos, rxCnt, closed>>
Skel == <<HubSkel, end, Len(posts), [s \in Sessions |-> SessSkel(s)]>>

\* What recv() returns to s, told from the cursor and the tail alone.
CursorTag(s) ==
    IF rxNext[s] = tailPos THEN (IF closed THEN "Closed" ELSE "Empty")
    ELSE IF tailPos - rxNext[s] > Capacity THEN "Lagged"
    ELSE "Ok"

OthersSame(s) == \A u \in Sessions \ {s} : SessSkel(u)' = SessSkel(u)
Ends(s, why) ==
    /\ SessSkel(s)' = <<"done", rxNext[s], 0,
                         Append(LogSkel(s), [k |-> why, id |-> Len(posts)]), regAt[s]>>
    /\ HubSkel' = <<SlotSkel, tailPos, rxCnt - 1, closed>>
    /\ end' = end /\ Len(posts') = Len(posts) /\ OthersSame(s)

\* The steps of the program as steps on that state, none of which looks at
\* a room, a username or a body.
SkelPost ==
    /\ ~closed /\ Len(posts') = Len(posts) + 1
    /\ HubSkel' =
          IF rxCnt = 0 THEN HubSkel
          ELSE <<[SlotSkel EXCEPT ![tailPos % Capacity] =
                     [pos |-> tailPos, id |-> Len(posts) + 1]],
                 tailPos + 1, rxCnt, closed>>
    /\ end' = end /\ \A u \in Sessions : SessSkel(u)' = SessSkel(u)
SkelEvents(s) ==
    /\ ~closed /\ pc[s] = "idle"
    /\ SessSkel(s)' = <<"race", tailPos, 0, <<>>, Len(posts)>>
    /\ HubSkel' = <<SlotSkel, tailPos, rxCnt + 1, closed>>
    /\ end' = end /\ Len(posts') = Len(posts) /\ OthersSame(s)
SkelRecvOk(s) ==
    /\ pc[s] = "race" /\ CursorTag(s) = "Ok"
    /\ SessSkel(s)' = <<"yield", rxNext[s] + 1, SlotSkel[rxNext[s] % Capacity].id,
                         LogSkel(s), regAt[s]>>
    /\ HubSkel' = HubSkel /\ end' = end /\ Len(posts') = Len(posts) /\ OthersSame(s)
SkelRecvLagged(s) ==
    /\ pc[s] = "race" /\ CursorTag(s) = "Lagged"
    /\ SessSkel(s)' = <<"race", tailPos - Capacity, 0,
                         Append(LogSkel(s), [k |-> "lagged",
                                            id |-> tailPos - Capacity - rxNext[s]]),
                         regAt[s]>>
    /\ HubSkel' = HubSkel /\ end' = end /\ Len(posts') = Len(posts) /\ OthersSame(s)
SkelYield(s) ==
    /\ pc[s] = "yield"
    /\ SessSkel(s)' = <<"race", rxNext[s], 0,
                         Append(LogSkel(s), [k |-> "emit", id |-> msg[s].id]), regAt[s]>>
    /\ HubSkel' = HubSkel /\ end' = end /\ Len(posts') = Len(posts) /\ OthersSame(s)
SkelSession(s) ==
    \/ SkelEvents(s) \/ SkelRecvOk(s) \/ SkelRecvLagged(s) \/ SkelYield(s)
    \/ (pc[s] = "race" /\ CursorTag(s) = "Closed" /\ Ends(s, "closed"))
    \/ (pc[s] = "race" /\ end /\ Ends(s, "shutdown"))
    \/ (pc[s] \in {"race", "yield"} /\ Ends(s, "gone"))
SkelEnv ==
    /\ \/ (~end /\ end' /\ closed' = closed)
       \/ (end /\ ~closed /\ end' /\ closed')
    /\ <<SlotSkel, tailPos, rxCnt, Len(posts)>>' = <<SlotSkel, tailPos, rxCnt, Len(posts)>>
    /\ \A u \in Sessions : SessSkel(u)' = SessSkel(u)
SkelNext == SkelPost \/ SkelEnv \/ \E s \in Sessions : SkelSession(s)

\* Which steps can be taken is told from that state alone as well.
SkelEnabled ==
    /\ \A form \in Forms :
          Valid(form) => (ENABLED Post(form) <=> (~closed /\ Len(posts) < MaxPosts))
    /\ \A s \in Sessions :
          /\ ENABLED Events(s) <=> (~closed /\ pc[s] = "idle")
          /\ ENABLED RecvOk(s) <=> (pc[s] = "race" /\ CursorTag(s) = "Ok")
          /\ ENABLED RecvLagged(s) <=> (pc[s] = "race" /\ CursorTag(s) = "Lagged")
          /\ ENABLED RecvClosed(s) <=> (pc[s] = "race" /\ CursorTag(s) = "Closed")
          /\ ENABLED EndResolved(s) <=> (pc[s] = "race" /\ end)
          /\ ENABLED Yield(s) <=> (pc[s] = "yield")
          /\ ENABLED Disconnect(s) <=> (pc[s] \in {"race", "yield"})

\* C13: the room is not used for routing.  Every step of the program changes
\* the content-free state (slots, cursors, session positions, per-session
\* record of emitted posts, Lagged counts and endings) by a rule that reads no
\* room, and which steps are enabled depends on that state only; a stored
\* post lies ahead of the cursor of every subscribed session whatever its
\* room.  Two runs that differ only in the (valid) rooms of their posts hence
\* go through the same content-free states.
C13_RoomNotRouted ==
    /\ [][SkelNext]_Skel
    /\ []SkelEnabled
    /\ [][(PostStep /\ rxCnt > 0) =>
            \A u \in Sessions : Live(u) => rxNext'[u] < tailPos']_vars

\* Both sessions emitted a post of room "lobby" and a post of another room.
C13_Witness ==
    \E i, j \in 1 .. Len(posts) :
        /\ posts[i].val.room = "lobby"
        /\ posts[j].val.room = Room29
        /\ \A s \in Sessions : Emitted(s, i) /\ Emitted(s, j)

\* post() serves the request carrying `form`: the form is offered to the Hub.
Offered(form) == Post(form) /\ posts' = Append(posts, [val |-> form, status |-> "ok"])
Serving == ~closed /\ Len(posts) < MaxPosts

\* C14 as stated: a room of at most 30 and a username of at most 20
\* characters are accepted and the message is offered to the Hub.
C14_AcceptsUpTo30And20 ==
    \A form \in Forms :
        (Serving /\ Len(form.room) <= 30 /\ Len(form.username) <= 20)
            => ENABLED Offered(form)

\* C14 amended: a room of at most 29 and a username of at most 19
\* characters are accepted whatever the length of the body, and the message
\* is offered to the Hub; a room of 30 or more or a username of 20 or more
\* characters is never published.
C14_AcceptsUpTo29And19 ==
    /\ [](\A form \in Forms :
            /\ (Serving /\ Len(form.room) <= 29 /\ Len(form.username) <= 19)
                  => ENABLED Offered(form)
            /\ (Len(form.room) >= 30 \/ Len(form.username) >= 20)
                  => ~ENABLED (Post(form) /\ vars' # vars))
    /\ [](\A i \in 1 .. Len(posts) :
            Len(posts[i].val.room) <= 29 /\ Len(posts[i].val.username) <= 19)

\* A message with a room of 29 and a username of 19 characters and a body
\* longer than both was stored and emitted.
C14_Witness ==
    \E i \in 1 .. Len(posts) : \E s \in Sessions :
        /\ Len(posts[i].val.room) = 29
        /\ Len(posts[i].val.username) = 19
        /\ Len(posts[i].val.message) > 30
        /\ Emitted(s, i)

\* Session s takes a step.
SessionStep(s) == SessSkel(s)' # SessSkel(s)

\* C15 as stated: once shutdown has resolved a session ends at its next race
\* and nothing is emitted any more.
C15_NothingEmittedAfterShutdown ==
    [][\A s \in Sessions :
         end => /\ Emits(s)' = Emits(s)
                /\ (pc[s] = "race" /\ SessionStep(s)) => pc'[s] = "done"]_vars

\* C15 amended: once shutdown has resolved the shutdown branch is ready at
\* every race, whatever recv() has, so a session can end with unread
\* messages pending; a step from a race at which recv() has nothing ends the
\* session; and what is emitted after shutdown is a message that was ready,
\* in publish order like any other.
C15_ShutdownAlwaysReady ==
    /\ [](\A s \in Sessions : (end /\ pc[s] = "race") => ENABLED EndResolved(s))
    /\ [][\A s \in Sessions :
            (end /\ pc[s] = "race" /\ CursorTag(s) \in {"Empty", "Closed"}
                 /\ SessionStep(s)) => pc'[s] = "done"]_vars
    /\ [][\A s \in Sessions :
            (end /\ Emits(s)' # Emits(s)) =>
                /\ pc[s] = "yield"
                /\ Emits(s)' = Append(Emits(s), Emit(msg[s]))
                /\ msg[s].val = posts[msg[s].id].val]_vars

\* A session ended on the shutdown branch with an unread message pending,
\* and the other one emitted a message although shutdown had resolved
\* before that message was published.
C15_Witness ==
    \E s, u \in Sessions : \E i \in 1 .. Len(posts) :
        /\ log[s] # <<>> /\ log[s][Len(log[s])].k = "shutdown"
        /\ rxNext[s] < tailPos
        /\ log[s][Len(log[s])].id < i
        /\ Emitted(u, i)

\* s has a step to take: it is at the yield, or at the select! with a branch
\* ready (a message, Lagged or Closed to report, or shutdown resolved).
CanStep(s) ==
    \/ pc[s] = "yield"
    \/ pc[s] = "race" /\ (CursorTag(s) # "Empty" \/ end)

Held(s, i) == pc[s] = "yield" /\ msg[s].id = i
Pending(s, i) == tailPos - (Len(posts) - i) - 1 >= rxNext[s]
Bit(b) == IF b THEN 1 ELSE 0

\* C17: accounting.  For a subscribed session the messages it has taken from
\* the channel (emitted or about to be), the counts of the Lagged it got and
\* the messages still ahead of its cursor add up to the posts served since
\* its registration, and each of those posts is exactly one of: taken,
\* covered by a Lagged, still ahead.
C17_Accounting ==
    \A s \in Sessions :
        Live(s) =>
            /\ Consumed(log[s], Len(log[s])) + Bit(pc[s] = "yield")
                  + (tailPos - rxNext[s]) = Len(posts) - regAt[s]
            /\ \A i \in (regAt[s] + 1) .. Len(posts) :
                  Bit(Emitted(s, i) \/ Held(s, i)) + Bit(LaggedOver(s, i))
                      + Bit(Pending(s, i)) = 1

\* Of three posts a session was told it missed one, has emitted one and has
\* one ahead.
C17_Witness ==
    \E s \in Sessions :
        /\ Live(s) /\ pc[s] = "race"
        /\ Len(posts) - regAt[s] = 3
        /\ Len(log[s]) = 2
        /\ IsLag(log[s][1]) /\ log[s][1].id = 1
        /\ IsEmit(log[s][2])
        /\ tailPos - rxNext[s] = 1

\* Number of posts served when entry i of log[s], a Lagged, was returned:
\* the cursor then stood Capacity behind the tail.
PostsAtLag(s, i) == regAt[s] + Consumed(log[s], i) + Capacity

\* Entry i of log[s] is a Lagged and nothing has been published since.
LagThenQuiet(s, i) == IsLag(log[s][i]) /\ Len(posts) = PostsAtLag(s, i)

EmitsIn(s, a, b) == {j \in a .. b : IsEmit(log[s][j])}

\* s has read all there is and sits at the select!.
Drained(s) == Live(s) /\ pc[s] = "race" /\ rxNext[s] = tailPos

\* C18: after a Lagged the session resumes at the oldest retained message.
\* The recv() that finds k > Capacity unread messages returns Lagged with
\* k - Capacity and moves the cursor to the oldest retained slot; if nothing
\* is published afterwards, no second Lagged follows, the emissions after
\* it are the last Capacity posts in publish order (all of them once the
\* session has drained the channel), and none of the k - Capacity posts
\* before them is ever emitted.
C18_ResumesAtOldest ==
    /\ [][\A s \in Sessions :
            LaggedStep(s) =>
                /\ tailPos - rxNext[s] > Capacity
                /\ log'[s][Len(log'[s])].id = (tailPos - rxNext[s]) - Capacity
                /\ rxNext'[s] = tailPos - Capacity
                /\ buffer[SlotOf(rxNext'[s])].pos = rxNext'[s]]_vars
    /\ [](\A s \in Sessions : \A i \in 1 .. Len(log[s]) :
            LagThenQuiet(s, i) =>
                LET first == PostsAtLag(s, i) - Capacity
                    n == Len(log[s])
                IN  /\ \A j \in (i + 1) .. n : ~IsLag(log[s][j])
                    /\ \A j \in EmitsIn(s, i + 1, n) :
                          log[s][j].id = first + Cardinality(EmitsIn(s, i + 1, j))
                    /\ Held(s, first + Cardinality(EmitsIn(s, i + 1, n)) + 1)
                          \/ pc[s] # "yield"
                    /\ Drained(s) => Cardinality(EmitsIn(s, i + 1, n)) = Capacity
                    /\ \A q \in (first - log[s][i].id + 1) .. first :
                          ~Emitted(s, q) /\ ~Held(s, q))

\* Three posts went unread by a session on a channel of Capacity slots; it
\* got one Lagged for the oldest and has emitted the other Capacity in order.
C18_Witness ==
    \E s \in Sessions :
        /\ Drained(s)
        /\ Len(log[s]) = Capacity + 1
        /\ LagThenQuiet(s, 1) /\ log[s][1].id = 1
        /\ \A j \in 2 .. (Capacity + 1) :
              IsEmit(log[s][j]) /\ log[s][j].id = Len(posts) - Capacity + j - 1

NeverLagged(s) == \A k \in 1 .. Len(log[s]) : ~IsLag(log[s][k])

\* C19: lag is per subscriber and never spurious.  recv() returns Lagged to
\* a session exactly when more than Capacity messages stand between its own
\* cursor and the tail, whatever the other sessions' cursors are; a step of
\* another session, its Lagged included, changes neither the cursor nor the
\* history of this one; and a session that has not been Lagged has emitted,
\* holds or still has ahead of it every post since its registration, its
\* emissions being consecutive from the first.
C19_LagOwnBacklogOnly ==
    /\ [](\A s \in Sessions :
            /\ Live(s) =>
                  (Recv(rxNext[s]).tag = "Lagged" <=> tailPos - rxNext[s] > Capacity)
            /\ (Live(s) /\ NeverLagged(s)) =>
                  /\ \A i \in (regAt[s] + 1) .. Len(posts) :
                        Emitted(s, i) \/ Held(s, i) \/ Pending(s, i)
                  /\ \A j \in 1 .. Len(Emits(s)) : Emits(s)[j].id = regAt[s] + j)
    /\ [][\A s \in Sessions :
            /\ LaggedStep(s) => tailPos - rxNext[s] > Capacity
            /\ \A u \in Sessions \ {s} :
                  LaggedStep(u) =>
                      /\ rxNext'[s] = rxNext[s] /\ log'[s] = log[s]
                      /\ pc'[s] = pc[s] /\ msg'[s] = msg[s]
                      /\ Live(s) => (Recv(rxNext[s]).tag)' = Recv(rxNext[s]).tag]_vars

\* One session has emitted all of more than Capacity posts without a
\* Lagged while the other, registered no later, was Lagged on the same posts.
C19_Witness ==
    \E s, u \in Sessions :
        /\ s # u /\ Live(s) /\ Live(u)
        /\ NeverLagged(s) /\ ~NeverLagged(u)
        /\ regAt[u] <= regAt[s]
        /\ Len(posts) - regAt[s] > Capacity
        /\ Len(Emits(s)) = Len(posts) - regAt[s]

====
